---- MODULE Spec2Model ----
(***************************************************************************)
(* State-machine model of ruuvi-api's history aggregation and retention:   *)
(* the tables tag, history and history_aggregated, the history and         *)
(* aggregated-history models, and the two scheduled tasks.                 *)
(*                                                                         *)
(* Time is counted in slots: SlotsPerDay slots make one calendar day and   *)
(* slot 0 of a day is its midnight (00:00:00.000).  A Date is the number   *)
(* of slots since day 0.  Sensor values are integers in thousandths.       *)
(*                                                                         *)
(* Every `await` on the database is a suspension point: an asynchronous    *)
(* function is one record in `calls`, and each action is the code between  *)
(* two suspension points of one of its branches.  The tables behave as the *)
(* code addresses them through knex: insert stores the given values under  *)
(* a fresh auto-increment id, where(column, value) matches equal values.   *)
(***************************************************************************)
EXTENDS Integers, FiniteSets, Sequences, TLC

VARIABLES tag, history, history_aggregated, seq, now, calls, prev

vars == <<tag, history, history_aggregated, seq, now, calls, prev>>

\* SQL NULL and JavaScript null, among integer column values.
NULL == -1

\* Two values a caller can pass where a Date is expected: a Date object whose
\* time value is NaN (new Date("garbage")), and a value that is no Date
\* object at all (the string '2024-01-01').
InvalidDate == -2

NotADate == -3

\* ------------------------------------------------------------------ bounds
SlotsPerDay == 2
MaxHistory == 2
MaxAggregated == 2
MaxCalls == 2
MaxTicks == 1
MaxTrendRows == 4
MaxQueryRows == 2

MaxTags == 3

MaxMidnights == 8

\* new Date() when the model starts: slot 1 of day 9.
Now0 == 19

\* ------------------------------------------------------- program constants
DAYS_TO_CLEAN == 7

\* --------------------------------------------------------------- date-fns
setHoursZero(d) == d - (d % SlotsPerDay)

addDays(d, n) == d + n * SlotsPerDay

subDays(d, n) == d - n * SlotsPerDay

\* x instanceof Date.
InstanceOfDate(x) == x # NotADate

\* a > b on two Date objects: the comparison of their time values, false
\* when either is NaN.
DateGreater(a, b) == a # InvalidDate /\ b # InvalidDate /\ a > b

\* The error of a statement the database driver refuses.
ERR_DATABASE == "database error"

\* ----------------------------------------------------------------- inputs
RuuviIds == {"11:22:33:44:55:66", "22:33:44:55:66:77"}

Today == setHoursZero(Now0)

\* Datetimes of the readings offered to saveHistory in the aggregation
\* specifications: two days ago and yesterday, after midnight, and today's
\* midnight.
AggTimes == {subDays(Today, 2) + 1, subDays(Today, 1) + 1, Today}

\* Dates passed to aggregateHistory and saveAggregatedHistory when they are
\* called directly: yesterday's midnight, yesterday after midnight, and
\* today's midnight.
AggDates == {subDays(Today, 1), subDays(Today, 1) + 1, Today}

\* <<temperature_min, temperature_max, humidity_min, humidity_max>> passed to
\* saveAggregatedHistory when it is called directly (no humidity given).
AggValues == {<<16000, 26000, -1, -1>>}

\* Values passed to cleanOldHistory when it is called directly: the task's
\* cutoff, tomorrow, an invalid Date and a string.
CleanDates == {subDays(Now0, DAYS_TO_CLEAN), addDays(Now0, 1), InvalidDate, NotADate}

\* Values passed to saveAggregatedHistory in the specification of the reads
\* of history_aggregated: both sensors, minimum below maximum.
AggReadValues == {<<16000, 26000, 40000, 60000>>}

\* The same for the specification of overlapping calls: readings of yesterday,
\* calls for yesterday's midnight.
ConcTimes == {subDays(Today, 1) + 1}

ConcDates == {subDays(Today, 1)}

ConcSamples == {<<15000, 50000>>}

\* Datetimes of the readings offered in the retention specification: around
\* the cutoff, and yesterday.
RetTimes == {subDays(Now0, DAYS_TO_CLEAN) - 1, subDays(Now0, DAYS_TO_CLEAN),
             subDays(Now0, DAYS_TO_CLEAN) + 1, subDays(Now0, 1)}

\* <<temperature, humidity>> of the readings, in thousandths.
Samples == {<<15000, 50000>>, <<25000, 60000>>}

\* Arguments of saveHistory in the specification of saveHistory: the datetime
\* (a Date of yesterday, an invalid Date, a string), the sample (20.123 and
\* 55.988), the voltage in millivolts (none, 1.9 V, 2.4 V, 2.6 V), and the
\* battery_low flag.  An absent ruuvi_id is "", an absent tag_id or voltage
\* is NULL.
SaveDatetimes == {subDays(Today, 1) + 1, InvalidDate, NotADate}

SaveSamples == {<<20123, 55988>>}

SaveVoltages == {NULL, 1900, 2400, 2600}

SaveRuuviIds == {"", "11:22:33:44:55:66"}

\* The arguments offered to ensureTag: no Ruuvi id and two; no name and two.
TagRuuviIds == {""} \cup RuuviIds

TagNames == {"", "Existing Tag", "Different Name"}

\* The history tables of the specification of the read operations.  A table
\* is given by the sequence of its rows in insertion order, as
\* <<tag_id, datetime, temperature, humidity>>.
\* Trend tables: the readings of tag 1, one per day from now backwards (the
\* newest inserted first), with temperatures that differ before rounding to
\* one decimal only (14.96 and 15.04) or also after it.
TrendTemperatures == {14960, 15040, 20000, 25000}

TrendTables ==
    UNION {{[i \in 1..n |-> <<1, subDays(Now0, i - 1), temps[i], 55000>>] :
               temps \in [1..n -> TrendTemperatures]} :
           n \in 0..MaxTrendRows}

\* The two tables of six readings of the trend tests: temperatures from the
\* newest to the oldest reading.
ScenarioTables ==
    {[i \in 1..6 |-> <<1, subDays(Now0, i - 1), temps[i], 55000>>] :
        temps \in {<<25000, 20000, 20000, 15000, 15000, 10000>>,
                   <<10000, 15000, 15000, 20000, 20000, 25000>>}}

\* Query tables: readings of two tags at three instants (yesterday's
\* midnight, yesterday after midnight, today's midnight), equal datetimes
\* included.
QueryTimes == {subDays(Today, 1), subDays(Today, 1) + 1, Today}

QueryTables ==
    UNION {[1..n -> {<<t, d, s[1], s[2]>> : t \in {1, 2}, d \in QueryTimes, s \in Samples}] :
           n \in 0..MaxQueryRows}

\* Tables with values the store holds as NULL: readings of two tags of
\* yesterday whose temperature, humidity or both are NULL.
NullSamples == {<<15000, NULL>>, <<NULL, NULL>>, <<25000, 60000>>}

NullTables ==
    UNION {[1..n -> {<<t, subDays(Today, 1) + 1, s[1], s[2]>> : t \in {1, 2}, s \in NullSamples}] :
           n \in 0..MaxQueryRows}

\* Arguments of the read operations: an absent tag_id, date or limit is
\* NULL, an absent sensor is "".
ReadTypes == {"min", "max", "avg"}

ReadTagIds == {NULL, 1, 2}

ReadSensors == {"", "temperature", "humidity", "pressure"}

ReadStarts == {NULL, subDays(Today, 1), Today}

ReadEnds == {NULL, subDays(Today, 1) + 1, Today}

ReadLimits == {NULL, 0, 1, 2}

\* ------------------------------------------------------------ small helpers
Min(S) == CHOOSE x \in S : \A y \in S : x <= y

Max(S) == CHOOSE x \in S : \A y \in S : x >= y

CallIds == 1..MaxCalls

\* A call in flight: the function called, where it is suspended, its
\* arguments and locals, and the state of the promise it returned.
NewCall(op, units) ==
    [op |-> op, pc |-> "fanout", date_end |-> NULL, outcome |-> "pending",
     error |-> "", afterRun |-> FALSE, units |-> units,
     delete_older_than_days |-> NULL, rows_removed |-> NULL]

Idle == NewCall("idle", <<>>)

Quiescent == \A c \in CallIds : calls[c] = Idle

\* Every call made so far has settled and done all its work: the caller may
\* go on to its next call while it still holds their results.
AllOver == \A c \in CallIds : calls[c].op = "idle" \/ calls[c].pc = "returned"

\* The slot a new call takes: the lowest idle one.
FreeSlot(c) == /\ calls[c] = Idle
               /\ \A b \in CallIds : b < c => calls[b] # Idle

\* ------------------------------------------------------------------- Init
Init ==
    /\ tag = {}
    /\ history = {}
    /\ history_aggregated = {}
    /\ seq = [tag |-> 0, history |-> 0, history_aggregated |-> 0]
    /\ now = Now0
    /\ calls = [c \in CallIds |-> Idle]
    /\ prev = "other"

\* --------------------------------------------------------------- tagModel
getTags == tag

\* Mutant of getTagByRuuviId: no tag is ever found.
getTagByRuuviId_None(ruuvi_id) == {}

getTagByRuuviId(ruuvi_id) == {t \in tag : t.ruuvi_id = ruuvi_id}

ERR_MISSING_RUUVI_ID == "Missing Ruuvi ID."

\* ensureTag({ ruuvi_id, name }) is called: without a Ruuvi id it throws,
\* with one it awaits getTagByRuuviId.
ensureTagCall(c, ruuvi_id, name) ==
    /\ FreeSlot(c)
    /\ seq.tag < MaxTags
    /\ calls' = [calls EXCEPT ![c] =
          [NewCall("ensureTag", <<>>) EXCEPT
              !.pc = IF ruuvi_id = "" THEN "returned" ELSE "getTagByRuuviId",
              !.outcome = IF ruuvi_id = "" THEN "rejected" ELSE "pending",
              !.error = IF ruuvi_id = "" THEN ERR_MISSING_RUUVI_ID ELSE ""]
          @@ [args |-> [ruuvi_id |-> ruuvi_id, name |-> name],
              value |-> NULL, name |-> ""]]
    /\ UNCHANGED <<tag, history, history_aggregated, seq, now, prev>>

\* getTagByRuuviId has answered its first match: with a tag, ensureTag
\* returns it; with none it awaits insertTag({ ruuvi_id, name }).
ensureTagGetTagByRuuviId(c) ==
    /\ calls[c].op = "ensureTag"
    /\ calls[c].pc = "getTagByRuuviId"
    /\ LET found == getTagByRuuviId(calls[c].args.ruuvi_id)
       IN  IF found = {}
           THEN calls' = [calls EXCEPT ![c].pc = "insertTag"]
           ELSE \E t \in found :
                   calls' = [calls EXCEPT ![c].pc = "returned",
                                          ![c].outcome = "fulfilled",
                                          ![c].value = t.id,
                                          ![c].name = t.name]
    /\ UNCHANGED <<tag, history, history_aggregated, seq, now, prev>>

\* insertTag has inserted the tag with the name given; getTagById(id) is
\* awaited.
ensureTagInsertTag(c) ==
    /\ calls[c].op = "ensureTag"
    /\ calls[c].pc = "insertTag"
    /\ tag' = tag \cup {[id |-> seq.tag + 1, ruuvi_id |-> calls[c].args.ruuvi_id,
                          name |-> calls[c].args.name]}
    /\ seq' = [seq EXCEPT !.tag = @ + 1]
    /\ calls' = [calls EXCEPT ![c].pc = "getTagById", ![c].value = seq.tag + 1]
    /\ UNCHANGED <<history, history_aggregated, now, prev>>

\* getTagById has answered the tag of the inserted id; ensureTag returns it.
ensureTagGetTagById(c) ==
    /\ calls[c].op = "ensureTag"
    /\ calls[c].pc = "getTagById"
    /\ \E t \in {u \in tag : u.id = calls[c].value} :
          calls' = [calls EXCEPT ![c].pc = "returned",
                                 ![c].outcome = "fulfilled",
                                 ![c].name = t.name]
    /\ UNCHANGED <<tag, history, history_aggregated, seq, now, prev>>

\* ensureTag({ ruuvi_id, name }) for a Ruuvi id that has no tag yet.
ensureTag(ruuvi_id, name) ==
    /\ getTagByRuuviId(ruuvi_id) = {}
    /\ tag' = tag \cup {[id |-> seq.tag + 1, ruuvi_id |-> ruuvi_id, name |-> name]}
    /\ seq' = [seq EXCEPT !.tag = @ + 1]
    /\ prev' = "other"
    /\ UNCHANGED <<history, history_aggregated, now, calls>>

\* ----------------------------------------------------------- historyModel
\* Mutant of toFixed2: the third decimal is cut off.
toFixed2_Truncate(x) == (x \div 10) * 10

\* Number(x.toFixed(2)) on thousandths.
toFixed2(x) == ((x + 5) \div 10) * 10

\* saveHistory({ tag_id, datetime, temperature, humidity }) with a tag id and
\* no voltage.
saveHistory(tag_id, datetime, temperature, humidity) ==
    /\ seq.history < MaxHistory
    /\ history' = history \cup
          {[id |-> seq.history + 1, tag_id |-> tag_id, datetime |-> datetime,
            temperature |-> toFixed2(temperature), humidity |-> toFixed2(humidity),
            battery_low |-> FALSE]}
    /\ seq' = [seq EXCEPT !.history = @ + 1]
    /\ prev' = "other"
    /\ UNCHANGED <<tag, history_aggregated, now, calls>>

ERR_NEED_ID == "Need either tag ID or Ruuvi ID."

ERR_DATETIME == "Datetime isn't a date object."

\* saveHistory derives battery_low from a voltage below 2 V.
BATTERY_LOW_VOLTAGE == 2000

\* The error saveHistory throws before any await, "" when it throws none.
saveHistoryError(tag_id, ruuvi_id, datetime) ==
    IF tag_id = NULL /\ ruuvi_id = "" THEN ERR_NEED_ID
    ELSE IF ~InstanceOfDate(datetime) THEN ERR_DATETIME
    ELSE ""

\* The battery_low that saveHistory stores.
BatteryLow(voltage, battery_low) ==
    IF voltage # NULL /\ voltage # 0 THEN voltage < BATTERY_LOW_VOLTAGE ELSE battery_low

\* saveHistory(args) is called: it throws on invalid arguments; without a
\* tag id it awaits ensureTag({ ruuvi_id }), which awaits getTagByRuuviId;
\* with one it goes on to the insert and awaits it.
saveHistoryCall(c, args) ==
    /\ FreeSlot(c)
    /\ seq.history < MaxHistory
    /\ LET error == saveHistoryError(args.tag_id, args.ruuvi_id, args.datetime)
       IN  calls' = [calls EXCEPT ![c] =
              [NewCall("saveHistory", <<>>) EXCEPT
                  !.pc = IF error # "" THEN "returned"
                         ELSE IF args.tag_id = NULL THEN "getTagByRuuviId"
                         ELSE "insert",
                  !.outcome = IF error # "" THEN "rejected" ELSE "pending",
                  !.error = error]
              @@ [args |-> args, tag_id |-> args.tag_id, value |-> NULL]]
    /\ UNCHANGED <<tag, history, history_aggregated, seq, now, prev>>

\* ensureTag: getTagByRuuviId has answered its first match; with a tag,
\* ensureTag returns it, with none it awaits insertTag.
saveHistoryGetTagByRuuviId(c) ==
    /\ calls[c].op = "saveHistory"
    /\ calls[c].pc = "getTagByRuuviId"
    /\ LET found == getTagByRuuviId(calls[c].args.ruuvi_id)
       IN  IF found = {}
           THEN calls' = [calls EXCEPT ![c].pc = "insertTag"]
           ELSE \E t \in found :
                   calls' = [calls EXCEPT ![c].pc = "insert", ![c].tag_id = t.id]
    /\ UNCHANGED <<tag, history, history_aggregated, seq, now, prev>>

\* ensureTag: insertTag({ ruuvi_id, name: undefined }) has inserted the tag;
\* getTagById(id) is awaited.
saveHistoryInsertTag(c) ==
    /\ calls[c].op = "saveHistory"
    /\ calls[c].pc = "insertTag"
    /\ tag' = tag \cup {[id |-> seq.tag + 1, ruuvi_id |-> calls[c].args.ruuvi_id, name |-> ""]}
    /\ seq' = [seq EXCEPT !.tag = @ + 1]
    /\ calls' = [calls EXCEPT ![c].pc = "getTagById", ![c].tag_id = seq.tag + 1]
    /\ UNCHANGED <<history, history_aggregated, now, prev>>

\* ensureTag: getTagById has answered the new tag; saveHistory takes its id,
\* sets battery_low, rounds, and awaits the insert.
saveHistoryGetTagById(c) ==
    /\ calls[c].op = "saveHistory"
    /\ calls[c].pc = "getTagById"
    /\ calls' = [calls EXCEPT ![c].pc = "insert"]
    /\ UNCHANGED <<tag, history, history_aggregated, seq, now, prev>>

\* The insert into history has been executed; saveHistory returns the id.
\* An invalid Date is bound as no instant: the driver stores NULL for it, or
\* refuses the statement.
saveHistoryInsert(c) ==
    /\ calls[c].op = "saveHistory"
    /\ calls[c].pc = "insert"
    /\ LET a == calls[c].args
           id == seq.history + 1
           row == [id |-> id, tag_id |-> calls[c].tag_id,
                   datetime |-> IF a.datetime = InvalidDate THEN NULL ELSE a.datetime,
                   temperature |-> toFixed2(a.temperature),
                   humidity |-> toFixed2(a.humidity),
                   battery_low |-> BatteryLow(a.voltage, a.battery_low)]
       IN  \E refused \in IF a.datetime = InvalidDate THEN {FALSE, TRUE} ELSE {FALSE} :
              IF refused
              THEN /\ calls' = [calls EXCEPT ![c].pc = "returned",
                                             ![c].outcome = "rejected",
                                             ![c].error = ERR_DATABASE]
                   /\ UNCHANGED <<history, seq>>
              ELSE /\ history' = history \cup {row}
                   /\ seq' = [seq EXCEPT !.history = id]
                   /\ calls' = [calls EXCEPT ![c].pc = "returned",
                                             ![c].outcome = "fulfilled",
                                             ![c].value = id]
    /\ UNCHANGED <<tag, history_aggregated, now, prev>>

\* Mutant of getHistory: the date_end filter is not applied.
getHistory_NoDateEnd(date_start, date_end, tag_id) ==
    {h \in history :
        /\ date_start # NULL => h.datetime > date_start
        /\ tag_id # NULL => \E t \in tag : t.id = h.tag_id /\ t.id = tag_id}

\* The rows getHistory's query selects; NULL leaves a filter out.
getHistory(date_start, date_end, tag_id) ==
    {h \in history :
        /\ date_start # NULL => h.datetime > date_start
        /\ date_end # NULL => h.datetime < date_end
        /\ tag_id # NULL => \E t \in tag : t.id = h.tag_id /\ t.id = tag_id}

\* Mutant of getMinOrMaxValueByTag: the rows of every tag are taken.
getMinOrMaxValueByTag_AnyTag(type, tag_id, sensor, date_start, date_end) ==
    LET rows == {h \in history : /\ h.datetime >= date_start
                                 /\ h.datetime <= date_end}
        values == {IF sensor = "temperature" THEN h.temperature ELSE h.humidity : h \in rows}
                      \ {NULL}
    IN  IF values = {} THEN NULL
        ELSE IF type = "min" THEN Min(values) ELSE Max(values)

\* getMinOrMaxValueByTag with valid arguments: MIN or MAX of the sensor over
\* the tag's rows with datetime BETWEEN date_start AND date_end.  The
\* aggregate passes over NULL values and is NULL when no value is left.
getMinOrMaxValueByTag(type, tag_id, sensor, date_start, date_end) ==
    LET rows == {h \in history : /\ h.tag_id = tag_id
                                 /\ h.datetime >= date_start
                                 /\ h.datetime <= date_end}
        values == {IF sensor = "temperature" THEN h.temperature ELSE h.humidity : h \in rows}
                      \ {NULL}
    IN  IF values = {} THEN NULL
        ELSE IF type = "min" THEN Min(values) ELSE Max(values)

\* The orders in which ORDER BY datetime DESC can answer a set of rows: rows
\* of equal datetime come in any order.
RECURSIVE NewestFirst(_)
NewestFirst(rows) ==
    IF rows = {} THEN {<<>>}
    ELSE UNION {{<<h>> \o s : s \in NewestFirst(rows \ {h})} :
                   h \in {x \in rows : \A y \in rows : x.datetime >= y.datetime}}

\* Mutant of Limit: one row too many.
Limit_OneMore(s, limit) ==
    IF limit = NULL \/ limit = 0 THEN s ELSE SubSeq(s, 1, Min({limit + 1, Len(s)}))

\* query.limit(limit), applied if (limit).
Limit(s, limit) ==
    IF limit = NULL \/ limit = 0 THEN s ELSE SubSeq(s, 1, Min({limit, Len(s)}))

\* The answers getHistory can give: its rows, newest first, cut at limit.
getHistoryRows(date_start, date_end, tag_id, limit) ==
    {Limit(s, limit) : s \in NewestFirst(getHistory(date_start, date_end, tag_id))}

SENSORS == {"temperature", "humidity"}

isValidSensorName(sensor_name) == sensor_name \in SENSORS

ERR_TYPE == "Type needs to be min or max."

ERR_RANGE == "Data range must contain start and end date time."

ERR_START_AFTER_END == "Start date cannot be before end date."

ERR_TAG_ID == "Missing tag ID."

ERR_SENSOR == "Missing sensor name."

ERR_SENSOR_NAME == "Not a valid sensor name: "

\* Mutant of getMinOrMaxValueByTagError: date_start > date_end is not checked.
getMinOrMaxValueByTagError_NoOrder(type, tag_id, sensor, date_start, date_end) ==
    IF type \notin {"min", "max"} THEN ERR_TYPE
    ELSE IF date_start = NULL \/ date_end = NULL THEN ERR_RANGE
    ELSE IF tag_id = NULL THEN ERR_TAG_ID
    ELSE IF sensor = "" THEN ERR_SENSOR
    ELSE IF ~isValidSensorName(sensor) THEN ERR_SENSOR_NAME \o sensor
    ELSE ""

\* The error getMinOrMaxValueByTag throws before its query, "" when none.
getMinOrMaxValueByTagError(type, tag_id, sensor, date_start, date_end) ==
    IF type \notin {"min", "max"} THEN ERR_TYPE
    ELSE IF date_start = NULL \/ date_end = NULL THEN ERR_RANGE
    ELSE IF DateGreater(date_start, date_end) THEN ERR_START_AFTER_END
    ELSE IF tag_id = NULL THEN ERR_TAG_ID
    ELSE IF sensor = "" THEN ERR_SENSOR
    ELSE IF ~isValidSensorName(sensor) THEN ERR_SENSOR_NAME \o sensor
    ELSE ""

\* Number(x.toFixed(1)) on thousandths (no value here ends in 50).
toFixed1(x) == ((x + 50) \div 100) * 100

\* The error getSensorTrendByTag throws before its query, "" when none.
getSensorTrendByTagError(tag_id, sensor) ==
    IF tag_id = NULL THEN ERR_TAG_ID
    ELSE IF sensor = "" THEN ERR_SENSOR
    ELSE IF ~isValidSensorName(sensor) THEN ERR_SENSOR_NAME \o sensor
    ELSE ""

\* Mutant of Trend: the comparison is on the values as stored.
Trend_NoRounding(sensor_values, sensor) ==
    IF Len(sensor_values) < 3 THEN 0
    ELSE LET first == sensor_values[1][sensor]
             second == sensor_values[2][sensor]
             third == sensor_values[3][sensor]
         IN  IF first > second /\ second > third THEN 1
             ELSE IF first < second /\ second < third THEN -1
             ELSE 0

\* getSensorTrendByTag's result for the rows getHistory({ tag_id, limit: 3 })
\* answered.
Trend(sensor_values, sensor) ==
    IF Len(sensor_values) < 3 THEN 0
    ELSE LET first == toFixed1(sensor_values[1][sensor])
             second == toFixed1(sensor_values[2][sensor])
             third == toFixed1(sensor_values[3][sensor])
         IN  IF first > second /\ second > third THEN 1
             ELSE IF first < second /\ second < third THEN -1
             ELSE 0

\* A read operation that is over: its arguments, the number of queries it
\* sent, and what it returned (a value, or rows).
ReadCall(op, args, error, queries, value, rows) ==
    [NewCall(op, <<>>) EXCEPT !.pc = "returned",
                              !.outcome = IF error # "" THEN "rejected" ELSE "fulfilled",
                              !.error = error]
    @@ [args |-> args, queries |-> queries, value |-> value, rows |-> rows]

\* getHistory(filters): one query, answered newest first.
getHistoryCall(c, date_start, date_end, tag_id, limit) ==
    /\ FreeSlot(c)
    /\ \E s \in getHistoryRows(date_start, date_end, tag_id, limit) :
          calls' = [calls EXCEPT ![c] =
             ReadCall("getHistory",
                      [date_start |-> date_start, date_end |-> date_end,
                       tag_id |-> tag_id, limit |-> limit], "", 1, NULL, s)]
    /\ UNCHANGED <<tag, history, history_aggregated, seq, now, prev>>

\* getMinOrMaxValueByTag(args): validation, then one query.
getMinOrMaxValueByTagCall(c, type, tag_id, sensor, date_start, date_end) ==
    /\ FreeSlot(c)
    /\ LET error == getMinOrMaxValueByTagError(type, tag_id, sensor, date_start, date_end)
           args == [type |-> type, tag_id |-> tag_id, sensor |-> sensor,
                    date_start |-> date_start, date_end |-> date_end]
       IN  calls' = [calls EXCEPT ![c] =
              IF error # "" THEN ReadCall("getMinOrMaxValueByTag", args, error, 0, NULL, <<>>)
              ELSE ReadCall("getMinOrMaxValueByTag", args, "", 1,
                            getMinOrMaxValueByTag(type, tag_id, sensor, date_start, date_end),
                            <<>>)]
    /\ UNCHANGED <<tag, history, history_aggregated, seq, now, prev>>

\* getSensorTrendByTag({ tag_id, sensor }): validation, then
\* getHistory({ tag_id, limit: 3 }) and the comparison of its rows.
getSensorTrendByTagCall(c, tag_id, sensor) ==
    /\ FreeSlot(c)
    /\ LET error == getSensorTrendByTagError(tag_id, sensor)
           args == [tag_id |-> tag_id, sensor |-> sensor]
       IN  IF error # ""
           THEN calls' = [calls EXCEPT ![c] =
                   ReadCall("getSensorTrendByTag", args, error, 0, NULL, <<>>)]
           ELSE \E sensor_values \in getHistoryRows(NULL, NULL, tag_id, 3) :
                   calls' = [calls EXCEPT ![c] =
                      ReadCall("getSensorTrendByTag", args, "", 1,
                               Trend(sensor_values, sensor), <<>>)]
    /\ UNCHANGED <<tag, history, history_aggregated, seq, now, prev>>

\* Mutant of cleanOldHistoryRows: the cutoff itself is deleted too.
cleanOldHistoryRows_Inclusive(delete_older_than_days) ==
    {h \in history : h.datetime <= delete_older_than_days}

\* The rows cleanOldHistory's delete statement removes.
cleanOldHistoryRows(delete_older_than_days) ==
    {h \in history : h.datetime < delete_older_than_days}

\* ------------------------------------------------- aggregatedHistoryModel
\* The rows getAggregatedHistory's query selects; NULL leaves a filter out.
getAggregatedHistory(tag_id, date) ==
    {a \in history_aggregated :
        /\ date # NULL => a.date = date
        /\ tag_id # NULL => a.tag_id = tag_id}

isDateAggregated(tag_id, date) == getAggregatedHistory(tag_id, date) # {}

\* format(date, 'yyyy-MM-dd'): the calendar day of a date, as a day number.
format_yyyy_MM_dd(date) == date \div SlotsPerDay

\* The orders in which ORDER BY history_aggregated.date DESC can answer a set
\* of rows: rows of equal date come in any order.
RECURSIVE DateDescending(_)
DateDescending(rows) ==
    IF rows = {} THEN {<<>>}
    ELSE UNION {{<<a>> \o s : s \in DateDescending(rows \ {a})} :
                   a \in {x \in rows : \A y \in rows : x.date >= y.date}}

\* The name that the left join on tag gives a row, "" for none.
TagName(tag_id) ==
    IF \E t \in tag : t.id = tag_id
    THEN (CHOOSE t \in tag : t.id = tag_id).name ELSE ""

\* getAggregatedHistory's additional formatting of one row: the date as
\* yyyy-MM-dd, and temperature and humidity objects whose min and max are
\* both taken from the row's *_min column.
FormatAggregated(a) ==
    [id |-> a.id, tag_id |-> a.tag_id, tag_name |-> TagName(a.tag_id),
     date |-> format_yyyy_MM_dd(a.date),
     temperature |-> [min |-> a.temperature_min, max |-> a.temperature_min],
     humidity |-> [min |-> a.humidity_min, max |-> a.humidity_min]]

\* The answers getAggregatedHistory can give: the rows selected, by date
\* descending, cut at limit, formatted.
getAggregatedHistoryRows(tag_id, date, limit) ==
    {[i \in 1..Len(Limit(s, limit)) |-> FormatAggregated(s[i])] :
        s \in DateDescending(getAggregatedHistory(tag_id, date))}

\* getAggregatedHistory({ tag_id, date, limit }): one query.
getAggregatedHistoryCall(c, tag_id, date, limit) ==
    /\ FreeSlot(c)
    /\ \E s \in getAggregatedHistoryRows(tag_id, date, limit) :
          calls' = [calls EXCEPT ![c] =
             ReadCall("getAggregatedHistory",
                      [tag_id |-> tag_id, date |-> date, limit |-> limit], "", 1, NULL, s)]
    /\ UNCHANGED <<tag, history, history_aggregated, seq, now, prev>>

\* isDateAggregated({ tag_id, date }): whether getAggregatedHistory answers
\* any row.
isDateAggregatedCall(c, tag_id, date) ==
    /\ FreeSlot(c)
    /\ calls' = [calls EXCEPT ![c] =
          ReadCall("isDateAggregated", [tag_id |-> tag_id, date |-> date], "", 1, NULL, <<>>)
          @@ [answer |-> isDateAggregated(tag_id, date)]]
    /\ UNCHANGED <<tag, history, history_aggregated, seq, now, prev>>

\* The four awaited getMinOrMaxValueByTag calls of aggregateHistory, in order.
QUERIES == << [field |-> "temperature_min", type |-> "min", sensor |-> "temperature"],
              [field |-> "temperature_max", type |-> "max", sensor |-> "temperature"],
              [field |-> "humidity_min", type |-> "min", sensor |-> "humidity"],
              [field |-> "humidity_max", type |-> "max", sensor |-> "humidity"] >>

\* One aggregated_history object of aggregateHistory, before its first query.
NewRow(tag_id, date) ==
    [pc |-> "query", q |-> 1, tag_id |-> tag_id, date |-> date,
     temperature_min |-> NULL, temperature_max |-> NULL,
     humidity_min |-> NULL, humidity_max |-> NULL, id |-> NULL]

\* Mutant of KeepRow: a row is kept only when none of its values is null.
KeepRow_All(r) ==
    /\ r.temperature_min # NULL
    /\ r.temperature_max # NULL
    /\ r.humidity_min # NULL
    /\ r.humidity_max # NULL

\* aggregateHistory's filter: a row is kept unless all four values are null.
KeepRow(r) ==
    \/ r.temperature_min # NULL
    \/ r.temperature_max # NULL
    \/ r.humidity_min # NULL
    \/ r.humidity_max # NULL

RowPending(r) == r.pc \in {"query", "computed", "check", "insert"}

\* A unit is one aggregateHistory(date) of a call (for run, with the gate
\* before it); its rows are the per-tag objects and their saves.
UnitRejected(u) == \E t \in DOMAIN u.rows : u.rows[t].pc = "conflict"

UnitDrained(u) ==
    /\ u.pc \in {"skipped", "done", "save"}
    /\ \A t \in DOMAIN u.rows : ~RowPending(u.rows[t])

Drained(call) ==
    /\ call.op # "idle"
    /\ call.pc \in {"fanout", "returned"}
    /\ \A d \in DOMAIN call.units : UnitDrained(call.units[d])

ERR_CONFLICT == "Aggregated data already exists for this tag and date."

\* Mutant of Settle: the rejection of a unit is caught, not passed on.
Settle_Caught(call, units) ==
    IF call.outcome # "pending" THEN [outcome |-> call.outcome, error |-> call.error]
    ELSE IF \A d \in DOMAIN units : UnitDrained(units[d])
         THEN [outcome |-> "fulfilled", error |-> ""]
    ELSE [outcome |-> "pending", error |-> ""]

\* How the promise of a call settles over its Promise.all fan-out: it rejects
\* with the first rejection of a unit, and is fulfilled (run: with true) once
\* every unit is.
Settle(call, units) ==
    IF call.outcome # "pending" THEN [outcome |-> call.outcome, error |-> call.error]
    ELSE IF \E d \in DOMAIN units : UnitRejected(units[d])
         THEN [outcome |-> "rejected", error |-> ERR_CONFLICT]
    ELSE IF \A d \in DOMAIN units : units[d].pc \in {"skipped", "done"}
         THEN [outcome |-> "fulfilled", error |-> ""]
    ELSE [outcome |-> "pending", error |-> ""]

\* The call with its units replaced, and its promise settled accordingly.
WithUnits(call, units) ==
    [call EXCEPT !.units = units,
                 !.outcome = Settle(call, units).outcome,
                 !.error = Settle(call, units).error]

\* A unit whose rows changed: it is done when every row is filtered or saved.
WithRows(u, rows) ==
    [u EXCEPT !.rows = rows,
              !.pc = IF \A t \in DOMAIN rows : rows[t].pc \in {"filtered", "saved"}
                     THEN "done" ELSE @]

\* aggregateHistory(date) is called: it awaits getTags().
aggregateHistoryCall(c, date) ==
    /\ FreeSlot(c)
    /\ seq.history_aggregated < MaxAggregated
    /\ calls' = [calls EXCEPT ![c] =
          NewCall("aggregateHistory", date :> [pc |-> "getTags", rows |-> <<>>])]
    /\ UNCHANGED <<tag, history, history_aggregated, seq, now, prev>>

\* getTags() has answered: one object per tag, each awaiting its first query.
\* With no tag both Promise.all are over nothing, and the unit is done.
aggregateGetTags(c, d) ==
    /\ calls[c].op \in {"run", "aggregateHistory"}
    /\ calls[c].pc = "fanout"
    /\ d \in DOMAIN calls[c].units
    /\ calls[c].units[d].pc = "getTags"
    /\ LET ids == {t.id : t \in getTags}
           u == [pc |-> IF ids = {} THEN "done" ELSE "extrema",
                 rows |-> [t \in ids |-> NewRow(t, d)]]
       IN  calls' = [calls EXCEPT ![c] = WithUnits(@, [@.units EXCEPT ![d] = u])]
    /\ UNCHANGED <<tag, history, history_aggregated, seq, now, prev>>

\* After the last query of the last tag: filter, then saveAggregatedHistory
\* is called for every row kept and awaits its isDateAggregated.
FilterAndSave(rows) ==
    IF \E t \in DOMAIN rows : rows[t].pc = "query" THEN rows
    ELSE [t \in DOMAIN rows |->
             [rows[t] EXCEPT !.pc = IF KeepRow(rows[t]) THEN "check" ELSE "filtered"]]

\* One getMinOrMaxValueByTag of one tag has answered.
aggregateQuery(c, d, t) ==
    /\ calls[c].op \in {"run", "aggregateHistory"}
    /\ calls[c].pc = "fanout"
    /\ d \in DOMAIN calls[c].units
    /\ calls[c].units[d].pc = "extrema"
    /\ t \in DOMAIN calls[c].units[d].rows
    /\ LET u == calls[c].units[d]
           r == u.rows[t]
           date_start == setHoursZero(d)
           date_end == setHoursZero(addDays(d, 1))
       IN  /\ r.pc = "query"
           /\ LET qy == QUERIES[r.q]
                  v == getMinOrMaxValueByTag(qy.type, t, qy.sensor, date_start, date_end)
                  r2 == [r EXCEPT ![qy.field] = v,
                                  !.q = @ + 1,
                                  !.pc = IF r.q = Len(QUERIES) THEN "computed" ELSE "query"]
                  rows2 == FilterAndSave([u.rows EXCEPT ![t] = r2])
                  u2 == WithRows([u EXCEPT !.pc = IF \E x \in DOMAIN rows2 : rows2[x].pc = "query"
                                                 THEN "extrema" ELSE "save"], rows2)
              IN  calls' = [calls EXCEPT ![c] = WithUnits(@, [@.units EXCEPT ![d] = u2])]
    /\ UNCHANGED <<tag, history, history_aggregated, seq, now, prev>>

\* saveAggregatedHistory(row) is called on its own: it awaits isDateAggregated.
saveAggregatedHistoryCall(c, tag_id, date, values) ==
    /\ FreeSlot(c)
    /\ seq.history_aggregated < MaxAggregated
    /\ LET r == [NewRow(tag_id, date) EXCEPT !.pc = "check", !.q = Len(QUERIES) + 1,
                    !.temperature_min = values[1], !.temperature_max = values[2],
                    !.humidity_min = values[3], !.humidity_max = values[4]]
       IN  calls' = [calls EXCEPT ![c] =
              NewCall("saveAggregatedHistory", date :> [pc |-> "save", rows |-> tag_id :> r])]
    /\ UNCHANGED <<tag, history, history_aggregated, seq, now, prev>>

\* Mutant of SaveThrows: the check left out.
SaveThrows_Never(is_date_aggregated) == FALSE

\* Whether saveAggregatedHistory throws, given isDateAggregated's answer.
SaveThrows(is_date_aggregated) == is_date_aggregated

\* saveAggregatedHistory: isDateAggregated({ tag_id, date }) has answered;
\* throw if a row exists, else issue the insert.
saveCheck(c, d, t) ==
    /\ calls[c].op \in {"run", "aggregateHistory", "saveAggregatedHistory"}
    /\ calls[c].pc = "fanout"
    /\ d \in DOMAIN calls[c].units
    /\ calls[c].units[d].pc = "save"
    /\ t \in DOMAIN calls[c].units[d].rows
    /\ LET u == calls[c].units[d]
           r == u.rows[t]
       IN  /\ r.pc = "check"
           /\ LET r2 == [r EXCEPT !.pc = IF SaveThrows(isDateAggregated(r.tag_id, r.date))
                                         THEN "conflict" ELSE "insert"]
                  u2 == WithRows(u, [u.rows EXCEPT ![t] = r2])
              IN  calls' = [calls EXCEPT ![c] = WithUnits(@, [@.units EXCEPT ![d] = u2])]
    /\ UNCHANGED <<tag, history, history_aggregated, seq, now, prev>>

\* saveAggregatedHistory: the insert has been executed.
saveInsert(c, d, t) ==
    /\ calls[c].op \in {"run", "aggregateHistory", "saveAggregatedHistory"}
    /\ calls[c].pc = "fanout"
    /\ d \in DOMAIN calls[c].units
    /\ calls[c].units[d].pc = "save"
    /\ t \in DOMAIN calls[c].units[d].rows
    /\ LET u == calls[c].units[d]
           r == u.rows[t]
           id == seq.history_aggregated + 1
       IN  /\ r.pc = "insert"
           /\ history_aggregated' = history_aggregated \cup
                 {[id |-> id, tag_id |-> r.tag_id, date |-> r.date,
                   temperature_min |-> r.temperature_min,
                   temperature_max |-> r.temperature_max,
                   humidity_min |-> r.humidity_min,
                   humidity_max |-> r.humidity_max]}
           /\ seq' = [seq EXCEPT !.history_aggregated = id]
           /\ LET u2 == WithRows(u, [u.rows EXCEPT ![t] = [r EXCEPT !.pc = "saved", !.id = id]])
              IN  calls' = [calls EXCEPT ![c] = WithUnits(@, [@.units EXCEPT ![d] = u2])]
    /\ UNCHANGED <<tag, history, now, prev>>

\* --------------------------------------------------- aggregateHistoryTask
\* run() is called: date_end is the beginning of today, and getHistory is awaited.
aggregateHistoryTaskRun(c) ==
    /\ FreeSlot(c)
    /\ calls' = [calls EXCEPT ![c] =
          [NewCall("run", <<>>) EXCEPT !.pc = "getHistory",
                                       !.date_end = setHoursZero(now),
                                       !.afterRun = (prev = "run")]]
    /\ UNCHANGED <<tag, history, history_aggregated, seq, now, prev>>

\* getHistory({ date_end }) has answered: the distinct days of the readings,
\* and for each of them an awaited isDateAggregated({ date }).
runGetHistory(c) ==
    /\ calls[c].op = "run"
    /\ calls[c].pc = "getHistory"
    /\ LET dates_with_data ==
              {setHoursZero(h.datetime) : h \in getHistory(NULL, calls[c].date_end, NULL)}
           units == [d \in dates_with_data |-> [pc |-> "gate", rows |-> <<>>]]
       IN  calls' = [calls EXCEPT ![c] = WithUnits([@ EXCEPT !.pc = "fanout"], units)]
    /\ UNCHANGED <<tag, history, history_aggregated, seq, now, prev>>

\* Whether run() calls aggregateHistory(date), given isDateAggregated's answer.
RunAggregates(is_date_aggregated) == is_date_aggregated

\* isDateAggregated({ date }) has answered for one day of run().
runGate(c, d) ==
    /\ calls[c].op = "run"
    /\ calls[c].pc = "fanout"
    /\ d \in DOMAIN calls[c].units
    /\ calls[c].units[d].pc = "gate"
    /\ LET u == [calls[c].units[d] EXCEPT
                    !.pc = IF RunAggregates(isDateAggregated(NULL, d))
                           THEN "getTags" ELSE "skipped"]
       IN  calls' = [calls EXCEPT ![c] = WithUnits(@, [@.units EXCEPT ![d] = u])]
    /\ UNCHANGED <<tag, history, history_aggregated, seq, now, prev>>

\* The caller has the settled promise of a call and all its work is over.
Return(c) ==
    /\ Drained(calls[c])
    /\ calls[c].outcome # "pending"
    /\ calls' = [calls EXCEPT ![c] = Idle]
    /\ prev' = IF calls[c].op = "run" THEN "run" ELSE "other"
    /\ UNCHANGED <<tag, history, history_aggregated, seq, now>>

\* ------------------------------------------------------- cleanHistoryTask
ERR_NOT_DATE == "Clean older than date isn't a date object."

ERR_FUTURE == "Date cannot be in the future."

\* The error cleanOldHistory throws before its delete, "" when it throws none.
cleanOldHistoryError(delete_older_than_days) ==
    IF ~InstanceOfDate(delete_older_than_days) THEN ERR_NOT_DATE
    ELSE IF DateGreater(delete_older_than_days, now) THEN ERR_FUTURE
    ELSE ""

\* cleanOldHistory(date) is called: it throws for a value that is no Date
\* object and for a date in the future, and else awaits the delete.
cleanOldHistoryCall(c, date) ==
    /\ FreeSlot(c)
    /\ LET error == cleanOldHistoryError(date)
       IN  calls' = [calls EXCEPT ![c] =
              [NewCall("cleanOldHistory", <<>>) EXCEPT
                  !.delete_older_than_days = date,
                  !.pc = IF error # "" THEN "returned" ELSE "delete",
                  !.outcome = IF error # "" THEN "rejected" ELSE "pending",
                  !.error = error]]
    /\ UNCHANGED <<tag, history, history_aggregated, seq, now, prev>>

\* run() of the clean task is called: it awaits cleanOldHistory(now - 7 days).
cleanHistoryTaskRun(c) ==
    /\ FreeSlot(c)
    /\ LET clean_date == subDays(now, DAYS_TO_CLEAN)
       IN  calls' = [calls EXCEPT ![c] =
              [NewCall("cleanRun", <<>>) EXCEPT
                  !.delete_older_than_days = clean_date,
                  !.pc = IF cleanOldHistoryError(clean_date) # "" THEN "returned" ELSE "delete",
                  !.outcome = IF cleanOldHistoryError(clean_date) # "" THEN "rejected" ELSE "pending",
                  !.error = cleanOldHistoryError(clean_date)]]
    /\ UNCHANGED <<tag, history, history_aggregated, seq, now, prev>>

\* Mutant of cleanOldHistoryDelete: the aggregates before the cutoff are
\* deleted as well.
cleanOldHistoryDelete_Aggregates(c) ==
    /\ calls[c].op \in {"cleanOldHistory", "cleanRun"}
    /\ calls[c].pc = "delete"
    /\ LET rows == {h \in history : h.datetime < calls[c].delete_older_than_days}
       IN  /\ history' = history \ rows
           /\ history_aggregated' =
                 {a \in history_aggregated : a.date >= calls[c].delete_older_than_days}
           /\ calls' = [calls EXCEPT ![c] =
                 [@ EXCEPT !.pc = "returned",
                           !.outcome = "fulfilled",
                           !.rows_removed = Cardinality(rows)]]
    /\ UNCHANGED <<tag, seq, now, prev>>

\* cleanOldHistory: the delete has been executed and answered its row count;
\* the task's run() then returns true.  A delete bound to an invalid Date
\* compares datetime with no instant: it matches no row, and the driver
\* either answers 0 or refuses the statement.
cleanOldHistoryDelete(c) ==
    /\ calls[c].op \in {"cleanOldHistory", "cleanRun"}
    /\ calls[c].pc = "delete"
    /\ LET rows == cleanOldHistoryRows(calls[c].delete_older_than_days)
       IN  /\ history' = history \ rows
           /\ \E refused \in IF calls[c].delete_older_than_days = InvalidDate
                              THEN {FALSE, TRUE} ELSE {FALSE} :
                 calls' = [calls EXCEPT ![c] =
                    [@ EXCEPT !.pc = "returned",
                              !.outcome = IF refused THEN "rejected" ELSE "fulfilled",
                              !.error = IF refused THEN ERR_DATABASE ELSE "",
                              !.rows_removed = IF refused THEN NULL ELSE Cardinality(rows)]]
    /\ UNCHANGED <<tag, history_aggregated, seq, now, prev>>

\* Midnight: both scheduled jobs fire.  The aggregator's run() sets date_end
\* to the beginning of the day and awaits getHistory; the cleaner's run()
\* awaits cleanOldHistory(now - 7 days), which awaits its delete.
Midnight ==
    /\ Quiescent
    /\ now < setHoursZero(Now0) + MaxMidnights * SlotsPerDay
    /\ LET at == setHoursZero(addDays(now, 1))
       IN  /\ now' = at
           /\ calls' = [calls EXCEPT
                 ![1] = [NewCall("run", <<>>) EXCEPT !.pc = "getHistory",
                                                     !.date_end = setHoursZero(at)],
                 ![2] = [NewCall("cleanRun", <<>>) EXCEPT
                            !.delete_older_than_days = subDays(at, DAYS_TO_CLEAN),
                            !.pc = "delete"]]
    /\ prev' = "other"
    /\ UNCHANGED <<tag, history, history_aggregated, seq>>

\* The clock moves on by one slot.
Tick ==
    /\ now < Now0 + MaxTicks
    /\ now' = now + 1
    /\ prev' = "other"
    /\ UNCHANGED <<tag, history, history_aggregated, seq, calls>>

\* --------------------------------------------------------- specifications
\* The queries of aggregateHistory only read, and no reading is written while
\* a call is in flight: they are taken in one order, that of (call, date, tag).
QueryTurn(c, d, t) ==
    \A c2 \in CallIds : \A d2 \in DOMAIN calls[c2].units :
        \A t2 \in DOMAIN calls[c2].units[d2].rows :
            calls[c2].units[d2].rows[t2].pc = "query" =>
                \/ c < c2
                \/ c = c2 /\ d < d2
                \/ c = c2 /\ d = d2 /\ t <= t2

\* The steps of the calls in flight.
Step ==
    \/ \E c \in CallIds : runGetHistory(c)
    \/ \E c \in CallIds : \E d \in DOMAIN calls[c].units : runGate(c, d)
    \/ \E c \in CallIds : \E d \in DOMAIN calls[c].units : aggregateGetTags(c, d)
    \/ \E c \in CallIds : \E d \in DOMAIN calls[c].units :
          \E t \in DOMAIN calls[c].units[d].rows : QueryTurn(c, d, t) /\ aggregateQuery(c, d, t)
    \/ \E c \in CallIds : \E d \in DOMAIN calls[c].units :
          \E t \in DOMAIN calls[c].units[d].rows : saveCheck(c, d, t)
    \/ \E c \in CallIds : \E d \in DOMAIN calls[c].units :
          \E t \in DOMAIN calls[c].units[d].rows : saveInsert(c, d, t)
    \/ \E c \in CallIds : Return(c)

\* Readings and tags arrive while no call is in flight.
Feed(times, samples) ==
    \/ \E r \in RuuviIds : Quiescent /\ ensureTag(r, "Tag")
    \/ \E t \in tag : \E d \in times : \E s \in samples :
          Quiescent /\ saveHistory(t.id, d, s[1], s[2])

\* Calls of the aggregation entry points, direct ones with a date of `dates`.
AggCall(c, dates) ==
    \/ aggregateHistoryTaskRun(c)
    \/ \E date \in dates : aggregateHistoryCall(c, date)
    \/ \E t \in tag : \E date \in dates : \E v \in AggValues :
          saveAggregatedHistoryCall(c, t.id, date, v)

\* One caller that awaits each call, and all its work, before the next one.
Next ==
    \/ Feed(AggTimes, Samples)
    \/ \E c \in CallIds : Quiescent /\ AggCall(c, AggDates)
    \/ Step

Spec == Init /\ [][Next]_vars

\* Callers that overlap: a call may start while another is in flight.
NextConc ==
    \/ Feed(ConcTimes, ConcSamples)
    \/ \E c \in CallIds : seq.history_aggregated < MaxAggregated /\ AggCall(c, ConcDates)
    \/ Step

SpecConc == Init /\ [][NextConc]_vars

\* The clean task and cleanOldHistory over readings around the cutoff.
NextClean ==
    \/ Feed(RetTimes, Samples)
    \/ \E c \in CallIds : Quiescent /\ cleanHistoryTaskRun(c)
    \/ \E c \in CallIds : \E date \in CleanDates : Quiescent /\ cleanOldHistoryCall(c, date)
    \/ \E c \in CallIds : cleanOldHistoryDelete(c)
    \/ \E c \in CallIds : Return(c)
    \/ Quiescent /\ Tick

SpecClean == Init /\ [][NextClean]_vars

\* saveHistory with every kind of argument, one awaited call at a time.
NextSave ==
    \/ \E c \in CallIds :
          \E tag_id \in {NULL} \cup {t.id : t \in tag}, ruuvi_id \in SaveRuuviIds,
             datetime \in SaveDatetimes, s \in SaveSamples,
             voltage \in SaveVoltages, battery_low \in BOOLEAN :
             /\ Quiescent
             /\ saveHistoryCall(c, [tag_id |-> tag_id, ruuvi_id |-> ruuvi_id,
                                    datetime |-> datetime, temperature |-> s[1],
                                    humidity |-> s[2], voltage |-> voltage,
                                    battery_low |-> battery_low])
    \/ \E c \in CallIds : saveHistoryGetTagByRuuviId(c)
    \/ \E c \in CallIds : saveHistoryInsertTag(c)
    \/ \E c \in CallIds : saveHistoryGetTagById(c)
    \/ \E c \in CallIds : saveHistoryInsert(c)
    \/ \E c \in CallIds : \E t \in tag :
          AllOver /\ getHistoryCall(c, NULL, NULL, t.id, NULL)
    \/ \E c \in CallIds : Return(c)

SpecSave == Init /\ [][NextSave]_vars

\* Requests that overlap: saveHistory by Ruuvi id and ensureTag calls start
\* while others are in flight.
NextSaveConc ==
    \/ \E c \in CallIds : \E ruuvi_id \in RuuviIds : \E s \in SaveSamples :
          saveHistoryCall(c, [tag_id |-> NULL, ruuvi_id |-> ruuvi_id,
                              datetime |-> subDays(Today, 1) + 1, temperature |-> s[1],
                              humidity |-> s[2], voltage |-> NULL,
                              battery_low |-> FALSE])
    \/ \E c \in CallIds : \E ruuvi_id \in RuuviIds : ensureTagCall(c, ruuvi_id, "Tag")
    \/ \E c \in CallIds : saveHistoryGetTagByRuuviId(c)
    \/ \E c \in CallIds : saveHistoryInsertTag(c)
    \/ \E c \in CallIds : saveHistoryGetTagById(c)
    \/ \E c \in CallIds : saveHistoryInsert(c)
    \/ \E c \in CallIds : ensureTagGetTagByRuuviId(c)
    \/ \E c \in CallIds : ensureTagInsertTag(c)
    \/ \E c \in CallIds : ensureTagGetTagById(c)
    \/ \E c \in CallIds : Return(c)

SpecSaveConc == Init /\ [][NextSaveConc]_vars

\* The service over the days: readings of one tag arrive dated now, a day may
\* be aggregated by hand, and at every midnight the two scheduled tasks run
\* side by side.
NextSchedule ==
    \/ Quiescent /\ ensureTag("11:22:33:44:55:66", "Tag")
    \/ \E t \in tag : \E s \in ConcSamples : Quiescent /\ saveHistory(t.id, now, s[1], s[2])
    \/ \E c \in CallIds : \E t \in tag : \E v \in AggValues :
          Quiescent /\ saveAggregatedHistoryCall(c, t.id, setHoursZero(now), v)
    \/ Midnight
    \/ Step
    \/ \E c \in CallIds : cleanOldHistoryDelete(c)

SpecSchedule == Init /\ [][NextSchedule]_vars

\* ensureTag with every kind of argument, one awaited call at a time.
NextTag ==
    \/ \E c \in CallIds : \E ruuvi_id \in TagRuuviIds, name \in TagNames :
          Quiescent /\ ensureTagCall(c, ruuvi_id, name)
    \/ \E c \in CallIds : ensureTagGetTagByRuuviId(c)
    \/ \E c \in CallIds : ensureTagInsertTag(c)
    \/ \E c \in CallIds : ensureTagGetTagById(c)
    \/ \E c \in CallIds : Return(c)

SpecTag == Init /\ [][NextTag]_vars

\* Every operation side by side, one awaited call at a time: readings of
\* before the clean task's cutoff and of yesterday, aggregation of those two
\* days, the clean task, cleanOldHistory, and the read operations.
FrameTimes == {subDays(Now0, DAYS_TO_CLEAN) - 1, subDays(Today, 1) + 1}

FrameDates == {setHoursZero(subDays(Now0, DAYS_TO_CLEAN) - 1), subDays(Today, 1)}

NextFrame ==
    \/ Feed(FrameTimes, ConcSamples)
    \/ \E c \in CallIds : Quiescent /\ AggCall(c, FrameDates)
    \/ Step
    \/ \E c \in CallIds : Quiescent /\ cleanHistoryTaskRun(c)
    \/ \E c \in CallIds : \E date \in CleanDates : Quiescent /\ cleanOldHistoryCall(c, date)
    \/ \E c \in CallIds : cleanOldHistoryDelete(c)
    \/ \E c \in CallIds : Quiescent /\ getHistoryCall(c, NULL, Today, NULL, NULL)
    \/ \E c \in CallIds : \E t \in tag :
          Quiescent /\ getMinOrMaxValueByTagCall(c, "max", t.id, "temperature",
                                                 subDays(Today, 1), Today)
    \/ \E c \in CallIds : \E t \in tag :
          Quiescent /\ getSensorTrendByTagCall(c, t.id, "temperature")

SpecFrame == Init /\ [][NextFrame]_vars

\* A stored history for the read operations: two tags, and the readings of
\* one of the tables, with ids in insertion order.
InitTables(tables) ==
    /\ tag = {[id |-> 1, ruuvi_id |-> "11:22:33:44:55:66", name |-> "Tag"],
              [id |-> 2, ruuvi_id |-> "22:33:44:55:66:77", name |-> "Tag"]}
    /\ \E table \in tables :
          /\ history = {[id |-> i, tag_id |-> table[i][1], datetime |-> table[i][2],
                         temperature |-> table[i][3], humidity |-> table[i][4],
                         battery_low |-> FALSE] : i \in DOMAIN table}
          /\ seq = [tag |-> 2, history |-> Len(table), history_aggregated |-> 0]
    /\ history_aggregated = {}
    /\ now = Now0
    /\ calls = [c \in CallIds |-> Idle]
    /\ prev = "other"

\* getHistory and getMinOrMaxValueByTag over the query tables.
InitRead == InitTables(QueryTables)

NextRead ==
    \/ \E c \in CallIds : \E date_start \in ReadStarts, date_end \in ReadEnds,
                              tag_id \in ReadTagIds, limit \in ReadLimits :
          Quiescent /\ getHistoryCall(c, date_start, date_end, tag_id, limit)
    \/ \E c \in CallIds : \E type \in ReadTypes, tag_id \in ReadTagIds, sensor \in ReadSensors,
                              date_start \in ReadStarts, date_end \in ReadEnds :
          Quiescent /\ getMinOrMaxValueByTagCall(c, type, tag_id, sensor, date_start, date_end)
    \/ \E c \in CallIds : Return(c)

SpecRead == InitRead /\ [][NextRead]_vars

\* The aggregation entry points over an empty store with no tag, and over
\* two tags whose readings of yesterday hold NULL values.
InitNull == Init \/ InitTables(NullTables)

NextNull ==
    \/ \E c \in CallIds : Quiescent /\ AggCall(c, ConcDates)
    \/ Step

SpecNull == InitNull /\ [][NextNull]_vars

\* Aggregate rows saved with dates at and after midnight, and the reads of
\* history_aggregated, one awaited call at a time.
NextAggRead ==
    \/ \E r \in RuuviIds : Quiescent /\ ensureTag(r, "Tag")
    \/ \E c \in CallIds : \E t \in tag : \E date \in AggDates : \E v \in AggReadValues :
          Quiescent /\ saveAggregatedHistoryCall(c, t.id, date, v)
    \/ \E c \in CallIds : \E d \in DOMAIN calls[c].units :
          \E t \in DOMAIN calls[c].units[d].rows : saveCheck(c, d, t)
    \/ \E c \in CallIds : \E d \in DOMAIN calls[c].units :
          \E t \in DOMAIN calls[c].units[d].rows : saveInsert(c, d, t)
    \/ \E c \in CallIds : \E tag_id \in ReadTagIds : \E date \in AggDates :
          Quiescent /\ isDateAggregatedCall(c, tag_id, date)
    \/ \E c \in CallIds : \E tag_id \in ReadTagIds : \E date \in {NULL} \cup AggDates :
          \E limit \in {NULL, 1} :
             Quiescent /\ getAggregatedHistoryCall(c, tag_id, date, limit)
    \/ \E c \in CallIds : Return(c)

SpecAggRead == Init /\ [][NextAggRead]_vars

\* getSensorTrendByTag over the trend tables.
InitTrend == InitTables(TrendTables \cup ScenarioTables)

NextTrend ==
    \/ \E c \in CallIds : \E tag_id \in ReadTagIds, sensor \in ReadSensors :
          Quiescent /\ getSensorTrendByTagCall(c, tag_id, sensor)
    \/ \E c \in CallIds : Return(c)

SpecTrend == InitTrend /\ [][NextTrend]_vars

\* ------------------------------------------------------------------ claims
\* The rows of a call's units, as <<date, tag>> pairs.
RowsOf(call) ==
    UNION {{<<d, t>> : t \in DOMAIN call.units[d].rows} : d \in DOMAIN call.units}

HasConflict(call) == \E d \in DOMAIN call.units : UnitRejected(call.units[d])

HasSaved(call) ==
    \E p \in RowsOf(call) : call.units[p[1]].rows[p[2]].pc = "saved"

\* The aggregate rows of a tag on the calendar day of a date.
RowsOfDay(tag_id, date) ==
    {a \in history_aggregated :
        a.tag_id = tag_id /\ setHoursZero(a.date) = setHoursZero(date)}

\* C1: a run() that follows a completed run(), with no reading, tag or other
\* call in between, adds no row to history_aggregated.
C1_SecondRunAddsNoRow ==
    [][(\E c \in CallIds : calls[c].op = "run" /\ calls[c].afterRun)
          => history_aggregated' = history_aggregated]_vars

\* C1 witness: such a second run() has run to its end and did reach the
\* saves of a day, with at least two aggregate rows stored.
C1_Witness ==
    \E c \in CallIds :
        /\ calls[c].op = "run"
        /\ calls[c].afterRun
        /\ Drained(calls[c])
        /\ HasConflict(calls[c])
        /\ Cardinality(history_aggregated) >= 2

\* C2: history_aggregated holds at most one row per tag and calendar day.
C2_OneRowPerTagAndDay ==
    \A a, b \in history_aggregated :
        (a.tag_id = b.tag_id /\ setHoursZero(a.date) = setHoursZero(b.date)) => a = b

\* C3: under overlapping calls, history_aggregated never holds two rows with
\* the same tag_id and the same date.
C3_NoRaceDuplicate ==
    \A a, b \in history_aggregated :
        (a.tag_id = b.tag_id /\ a.date = b.date) => a = b

\* C4: when run() has completed, every tag with a reading on a day before
\* today has exactly one aggregate row for that day.
C4_RunAggregatesEveryDay ==
    \A c \in CallIds :
        (calls[c].op = "run" /\ Drained(calls[c])) =>
            \A h \in history :
                h.datetime < calls[c].date_end =>
                    Cardinality(RowsOfDay(h.tag_id, h.datetime)) = 1

\* C5: every row that a step of run() adds to history_aggregated is dated
\* on a day before today.
C5_RunNeverAggregatesToday ==
    [][(\E c \in CallIds : calls[c].op = "run")
          => \A a \in history_aggregated' \ history_aggregated :
                setHoursZero(a.date) < setHoursZero(now)]_vars

\* C5 witness: a run() has saved a row while a reading dated today is stored.
C5_Witness ==
    \E c \in CallIds :
        /\ calls[c].op = "run"
        /\ Drained(calls[c])
        /\ HasSaved(calls[c])
        /\ \E h \in history : h.datetime >= setHoursZero(now)

\* The readings of a tag on the calendar day of a date.
ReadingsOfDay(tag_id, date) ==
    {h \in history :
        h.tag_id = tag_id /\ setHoursZero(h.datetime) = setHoursZero(date)}

\* C6: when aggregateHistory(day) has completed, every tag with readings on
\* that day has its row (saved now, or refused as already there), and a row
\* saved now holds the minimum and maximum of the temperature and of the
\* humidity of that tag's readings of that day.
C6_AggregateValues ==
    \A c \in CallIds :
        (calls[c].op = "aggregateHistory" /\ Drained(calls[c])) =>
            \A p \in RowsOf(calls[c]) :
                LET r == calls[c].units[p[1]].rows[p[2]]
                    ofDay == ReadingsOfDay(r.tag_id, r.date)
                IN  ofDay # {} =>
                        /\ r.pc \in {"saved", "conflict"}
                        /\ r.pc = "saved" =>
                              \E a \in history_aggregated :
                                  /\ a.id = r.id
                                  /\ a.tag_id = r.tag_id
                                  /\ a.temperature_min = Min({h.temperature : h \in ofDay})
                                  /\ a.temperature_max = Max({h.temperature : h \in ofDay})
                                  /\ a.humidity_min = Min({h.humidity : h \in ofDay})
                                  /\ a.humidity_max = Max({h.humidity : h \in ofDay})

\* The row of a saveAggregatedHistory call made on its own.
SaveRow(call) == call.units[CHOOSE d \in DOMAIN call.units : TRUE].rows[
                    CHOOSE t \in DOMAIN call.units[CHOOSE d \in DOMAIN call.units : TRUE].rows : TRUE]

\* C7: a saveAggregatedHistory whose tag_id and date are those of a stored
\* row is rejected with "Aggregated data already exists for this tag and
\* date.", and neither its check nor anything after it changes
\* history_aggregated.
C7_DuplicateSaveConflicts ==
    [][\A c \in CallIds :
          calls[c].op = "saveAggregatedHistory" =>
              /\ (SaveRow(calls[c]).pc = "check"
                  /\ \E a \in history_aggregated :
                        a.tag_id = SaveRow(calls[c]).tag_id /\ a.date = SaveRow(calls[c]).date)
                 => /\ history_aggregated' = history_aggregated
                    /\ calls'[c].op = "saveAggregatedHistory"
                    /\ SaveRow(calls'[c]).pc = "conflict"
                    /\ calls'[c].outcome = "rejected"
                    /\ calls'[c].error = ERR_CONFLICT
              /\ calls[c].outcome = "rejected"
                 => history_aggregated' = history_aggregated]_vars

\* C7 witness: a save was rejected for a stored row that holds other values.
C7_Witness ==
    \E c \in CallIds :
        /\ calls[c].op = "saveAggregatedHistory"
        /\ calls[c].outcome = "rejected"
        /\ \E a \in history_aggregated :
              /\ a.tag_id = SaveRow(calls[c]).tag_id
              /\ a.date = SaveRow(calls[c]).date
              /\ a.temperature_min # SaveRow(calls[c]).temperature_min

C9_OtherUnitsPersisted ==
    \A c \in CallIds :
        (calls[c].op = "run" /\ HasConflict(calls[c]) /\ Drained(calls[c])) =>
            \A h \in history :
                h.datetime < calls[c].date_end => RowsOfDay(h.tag_id, h.datetime) # {}

\* C10: the clean task's cutoff is now minus DAYS_TO_CLEAN days; its delete
\* removes the readings before the cutoff and no other, returns their
\* number, and the task is fulfilled.
C10_RetentionResult ==
    [][\A c \in CallIds :
          (calls[c].op = "cleanRun" /\ calls[c].pc = "delete") =>
              /\ calls[c].delete_older_than_days = subDays(now, DAYS_TO_CLEAN)
              /\ calls'[c] # calls[c] =>
                    /\ history' = {h \in history : h.datetime >= subDays(now, DAYS_TO_CLEAN)}
                    /\ calls'[c].rows_removed = Cardinality(history) - Cardinality(history')
                    /\ calls'[c].outcome = "fulfilled"]_vars

\* C10 witness: the clean task removed a reading and kept one dated exactly
\* at the cutoff.
C10_Witness ==
    \E c \in CallIds :
        /\ calls[c].op = "cleanRun"
        /\ calls[c].pc = "returned"
        /\ calls[c].rows_removed >= 1
        /\ \E h \in history : h.datetime = calls[c].delete_older_than_days

\* C12: cleanOldHistory with a cutoff that is no valid instant (no Date
\* object, or an invalid Date) or that lies in the future deletes no reading,
\* and ends rejected with one of its two validation errors.
C12_CleanValidation ==
    [][\A c \in CallIds :
          (/\ calls[c].op = "cleanOldHistory"
           /\ \/ calls[c].delete_older_than_days \in {NotADate, InvalidDate}
              \/ calls[c].delete_older_than_days > now)
          => /\ history' = history
             /\ calls'[c] # calls[c] =>
                   \/ calls'[c] = Idle /\ calls[c].outcome = "rejected"
                                      /\ calls[c].error \in {ERR_NOT_DATE, ERR_FUTURE}
                   \/ calls'[c].outcome = "rejected"
                      /\ calls'[c].error \in {ERR_NOT_DATE, ERR_FUTURE}]_vars

\* A saveHistory call that is over.
SaveOver(call) == call.op = "saveHistory" /\ call.pc = "returned"

\* C13: a saveHistory call with neither tag_id nor ruuvi_id, or with a
\* datetime that is no valid instant (no Date object, or an invalid Date),
\* stores neither a reading nor a tag, and ends rejected with one of the two
\* validation errors.
C13_SaveValidation ==
    [][\A c \in CallIds :
          (/\ calls[c].op = "saveHistory"
           /\ \/ calls[c].args.tag_id = NULL /\ calls[c].args.ruuvi_id = ""
              \/ calls[c].args.datetime \in {NotADate, InvalidDate})
          => /\ history' = history
             /\ tag' = tag
             /\ SaveOver(calls[c]) =>
                   /\ calls[c].outcome = "rejected"
                   /\ calls[c].error \in {ERR_NEED_ID, ERR_DATETIME}]_vars

\* C14: a saveHistory call that was given a voltage stores battery_low =
\* (voltage < 2.5 V), whatever battery_low flag it was given.
C14_BatteryLowFromVoltage ==
    \A c \in CallIds :
        (SaveOver(calls[c]) /\ calls[c].outcome = "fulfilled" /\ calls[c].args.voltage # NULL)
            => \E h \in history :
                  /\ h.id = calls[c].value
                  /\ h.battery_low = (calls[c].args.voltage < 2500)

\* The temperatures of a tag's readings from the newest to the oldest, in
\* each order that readings of equal datetime allow.
TemperaturesNewestFirst(tag_id) ==
    {[i \in 1..Len(s) |-> s[i].temperature] :
        s \in NewestFirst({h \in history : h.tag_id = tag_id})}

\* A read call that returned a value or rows.
Fulfilled(call, op) == call.op = op /\ call.outcome = "fulfilled"

\* C15: with temperatures [25,20,20,15,15,10] from the newest reading to the
\* oldest, getSensorTrendByTag returns 1 for temperature; with
\* [10,15,15,20,20,25] it returns -1.
C15_TrendScenario ==
    \A c \in CallIds :
        (Fulfilled(calls[c], "getSensorTrendByTag") /\ calls[c].args.sensor = "temperature")
        => /\ <<25000, 20000, 20000, 15000, 15000, 10000>>
                 \in TemperaturesNewestFirst(calls[c].args.tag_id) => calls[c].value = 1
           /\ <<10000, 15000, 15000, 20000, 20000, 25000>>
                 \in TemperaturesNewestFirst(calls[c].args.tag_id) => calls[c].value = -1

\* A value in thousandths rounded to one decimal: the nearest multiple of 100.
NearestTenth(x) == CHOOSE r \in (x - 50)..(x + 50) : r % 100 = 0

InvalidMinOrMaxArgs(a) ==
    \/ a.type \notin {"min", "max"}
    \/ a.sensor = ""
    \/ a.sensor \notin {"temperature", "humidity"}
    \/ a.tag_id = NULL
    \/ a.date_start = NULL
    \/ a.date_end = NULL
    \/ a.date_start > a.date_end

\* C17: getMinOrMaxValueByTag with an invalid type, a missing or invalid
\* sensor, no tag_id, a missing date or date_start > date_end is rejected
\* with a validation error, sends no query and changes no table; with a valid
\* type and both dates, date_start > date_end gives "Start date cannot be
\* before end date.".
C17_MinOrMaxValidation ==
    [][\A c \in CallIds :
          (calls'[c].op = "getMinOrMaxValueByTag" /\ InvalidMinOrMaxArgs(calls'[c].args))
          => /\ calls'[c].outcome = "rejected"
             /\ calls'[c].error \in {ERR_TYPE, ERR_RANGE, ERR_START_AFTER_END, ERR_TAG_ID,
                                      ERR_SENSOR, ERR_SENSOR_NAME \o calls'[c].args.sensor}
             /\ calls'[c].queries = 0
             /\ UNCHANGED <<tag, history, history_aggregated, seq>>
             /\ (/\ calls'[c].args.type \in {"min", "max"}
                 /\ calls'[c].args.date_start # NULL
                 /\ calls'[c].args.date_end # NULL
                 /\ calls'[c].args.date_start > calls'[c].args.date_end)
                => calls'[c].error = ERR_START_AFTER_END]_vars

\* C17 witness: with readings stored, a call with otherwise valid arguments
\* was rejected for date_start > date_end.
C17_Witness ==
    \E c \in CallIds :
        /\ calls[c].op = "getMinOrMaxValueByTag"
        /\ calls[c].error = ERR_START_AFTER_END
        /\ calls[c].args.tag_id # NULL
        /\ calls[c].args.sensor = "humidity"
        /\ history # {}

\* The values of a sensor over a tag's readings between two dates, both
\* included.
ValuesInWindow(a) ==
    {h[a.sensor] : h \in {x \in history : /\ x.tag_id = a.tag_id
                                          /\ x.datetime >= a.date_start
                                          /\ x.datetime <= a.date_end}}

\* C18: with valid arguments getMinOrMaxValueByTag returns null exactly when
\* the tag has no reading in the window, and else the least (type 'min') or
\* the greatest (type 'max') of the sensor's values over that tag's readings
\* in the window.
C18_MinOrMaxResult ==
    \A c \in CallIds :
        (calls[c].op = "getMinOrMaxValueByTag" /\ ~InvalidMinOrMaxArgs(calls[c].args))
        => /\ calls[c].outcome = "fulfilled"
           /\ calls[c].value = NULL <=> ValuesInWindow(calls[c].args) = {}
           /\ calls[c].value # NULL =>
                 /\ calls[c].value \in ValuesInWindow(calls[c].args)
                 /\ \A v \in ValuesInWindow(calls[c].args) :
                       IF calls[c].args.type = "min" THEN calls[c].value <= v
                                                     ELSE calls[c].value >= v

\* C18 witness: a maximum was returned while another tag has a greater value
\* in the window.
C18_Witness ==
    \E c \in CallIds :
        /\ Fulfilled(calls[c], "getMinOrMaxValueByTag")
        /\ calls[c].args.type = "max"
        /\ calls[c].value # NULL
        /\ \E h \in history :
              /\ h.tag_id # calls[c].args.tag_id
              /\ h.datetime >= calls[c].args.date_start
              /\ h.datetime <= calls[c].args.date_end
              /\ h[calls[c].args.sensor] > calls[c].value

\* The readings that match the filters of a getHistory call.
Matching(a) ==
    {h \in history :
        /\ a.tag_id # NULL => h.tag_id = a.tag_id
        /\ a.date_start # NULL => h.datetime > a.date_start
        /\ a.date_end # NULL => h.datetime < a.date_end}

AGGREGATION_OPS == {"run", "aggregateHistory", "saveAggregatedHistory"}

\* C11: no step updates or deletes a row of history_aggregated; a step that
\* adds one is a step of run(), aggregateHistory or saveAggregatedHistory;
\* and the delete of cleanOldHistory changes the history table only.
C11_AggregatesAppendOnly ==
    [][/\ history_aggregated \subseteq history_aggregated'
       /\ history_aggregated' # history_aggregated =>
             \E c \in CallIds : calls[c].op \in AGGREGATION_OPS /\ calls'[c] # calls[c]
       /\ \A c \in CallIds :
             (calls[c].op \in {"cleanRun", "cleanOldHistory"} /\ calls'[c] # calls[c])
                => UNCHANGED <<tag, history_aggregated, seq>>]_vars

\* C11 witness: the clean task removed a reading of a day whose aggregate
\* row is stored.
C11_Witness ==
    \E c \in CallIds :
        /\ calls[c].op = "cleanRun"
        /\ calls[c].pc = "returned"
        /\ calls[c].rows_removed >= 1
        /\ \E a \in history_aggregated : a.date < calls[c].delete_older_than_days

\* C20: run() of the aggregation task with nothing to do (no reading, or
\* every tag and day before today with a reading already has its row, and
\* the run saved none) returns true.
C20_NothingToDoIsSuccess ==
    \A c \in CallIds :
        (/\ calls[c].op = "run"
         /\ Drained(calls[c])
         /\ ~HasSaved(calls[c])
         /\ \A h \in history :
               h.datetime < calls[c].date_end => RowsOfDay(h.tag_id, h.datetime) # {})
        => calls[c].outcome = "fulfilled"

\* A value in thousandths rounded to two decimals: the nearest multiple of 10.
NearestHundredth(x) == CHOOSE r \in (x - 5)..(x + 5) : r % 10 = 0

\* C21: a saveHistory call with a valid datetime returns a positive id, and
\* a getHistory({ tag_id }) for its tag made after it returns the reading of
\* that id with the datetime given and with temperature and humidity rounded
\* to two decimals.
C21_SaveQueryRoundTrip ==
    \A c, q \in CallIds :
        (/\ c < q
         /\ Fulfilled(calls[c], "saveHistory")
         /\ calls[c].args.datetime \notin {NotADate, InvalidDate}
         /\ Fulfilled(calls[q], "getHistory")
         /\ calls[q].args.tag_id = calls[c].tag_id)
        => /\ calls[c].value > 0
           /\ \E i \in 1..Len(calls[q].rows) :
                 /\ calls[q].rows[i].id = calls[c].value
                 /\ calls[q].rows[i].tag_id = calls[c].tag_id
                 /\ calls[q].rows[i].datetime = calls[c].args.datetime
                 /\ calls[q].rows[i].temperature = NearestHundredth(calls[c].args.temperature)
                 /\ calls[q].rows[i].humidity = NearestHundredth(calls[c].args.humidity)

\* C21 witness: a reading saved by ruuvi_id was read back after another
\* reading of its tag, with a temperature that rounding changed.
C21_Witness ==
    \E c, q \in CallIds :
        /\ c < q
        /\ Fulfilled(calls[c], "saveHistory")
        /\ calls[c].args.tag_id = NULL
        /\ calls[c].args.datetime \notin {NotADate, InvalidDate}
        /\ Fulfilled(calls[q], "getHistory")
        /\ calls[q].args.tag_id = calls[c].tag_id
        /\ Len(calls[q].rows) = 2
        /\ \E i \in 1..2 : /\ calls[q].rows[i].id = calls[c].value
                            /\ calls[q].rows[i].temperature # calls[c].args.temperature

\* C22: with one ensureTag call at a time, no tag is ever removed or
\* changed, a Ruuvi id never has two tags, a tag inserted carries the Ruuvi
\* id and the name of the call that inserts it, a call for a Ruuvi id that
\* has a tag inserts nothing, and a fulfilled call returns the id and the
\* stored name of the one tag of its Ruuvi id.
C22_EnsureTagStable ==
    [][/\ tag \subseteq tag'
       /\ \A r \in RuuviIds : Cardinality({t \in tag' : t.ruuvi_id = r}) <= 1
       /\ \A t \in tag' \ tag :
             \E c \in CallIds : /\ calls[c].op = "ensureTag"
                                /\ calls[c].args = [ruuvi_id |-> t.ruuvi_id, name |-> t.name]
       /\ \A c \in CallIds :
             /\ (/\ calls[c].op = "ensureTag"
                 /\ calls'[c] # calls[c]
                 /\ \E t \in tag : t.ruuvi_id = calls[c].args.ruuvi_id) => tag' = tag
             /\ Fulfilled(calls'[c], "ensureTag")
                => \E t \in tag' : /\ t.ruuvi_id = calls'[c].args.ruuvi_id
                                   /\ t.id = calls'[c].value
                                   /\ t.name = calls'[c].name]_vars

\* C22 witness: ensureTag was called with another name for a Ruuvi id that
\* has a named tag, and returned that tag while a second Ruuvi id has one too.
C22_Witness ==
    \E c \in CallIds :
        /\ Fulfilled(calls[c], "ensureTag")
        /\ calls[c].pc = "returned"
        /\ calls[c].name = "Existing Tag"
        /\ calls[c].args.name = "Different Name"
        /\ calls[c].value = 1
        /\ Cardinality(tag) = 2

\* C23: run() calls aggregateHistory(day) for a day of the period exactly
\* when isDateAggregated({ date: day }) has answered false for it.
C23_GateDirection ==
    [][\A c \in CallIds :
          calls[c].op = "run" =>
             \A d \in DOMAIN calls[c].units :
                (calls[c].units[d].pc = "gate" /\ calls'[c].units[d].pc # "gate")
                => (calls'[c].units[d].pc = "getTags" <=> ~isDateAggregated(NULL, d))]_vars

\* The values of a sensor over the readings of a tag in the half-open day
\* [day 00:00, day+1 00:00).
ValuesOfDay(tag_id, sensor, date) ==
    {h[sensor] : h \in {x \in history : /\ x.tag_id = tag_id
                                         /\ x.datetime >= setHoursZero(date)
                                         /\ x.datetime < setHoursZero(addDays(date, 1))}}
    \ {NULL}

\* C24: every minimum or maximum that the aggregation of a day computes for
\* a tag is taken over the tag's readings of [day 00:00, day+1 00:00): a
\* reading dated exactly day+1 00:00 does not contribute.
C24_HalfOpenDay ==
    [][\A c \in CallIds :
          calls[c].op \in {"run", "aggregateHistory"} =>
             \A d \in DOMAIN calls[c].units :
                calls[c].units[d].pc = "extrema" =>
                   \A t \in DOMAIN calls[c].units[d].rows :
                      LET r == calls[c].units[d].rows[t]
                          r2 == calls'[c].units[d].rows[t]
                      IN  (r.pc = "query" /\ r2.q = r.q + 1) =>
                             LET qy == QUERIES[r.q]
                                 values == ValuesOfDay(t, qy.sensor, d)
                             IN  r2[qy.field] = IF values = {} THEN NULL
                                                ELSE IF qy.type = "min" THEN Min(values)
                                                ELSE Max(values)]_vars

\* C25: the date of every aggregate row is a midnight.
C25_DatesAtMidnight ==
    \A a \in history_aggregated : a.date = setHoursZero(a.date)

\* The non-null values of a sensor over the readings of a tag on the
\* calendar day of a date.
SensorValuesOfDay(tag_id, sensor, date) ==
    {h[sensor] : h \in ReadingsOfDay(tag_id, date)} \ {NULL}

\* C26: in aggregateHistory(day), a tag whose four values are all null gets
\* no row, a tag with at least one non-null value gets its row saved (or
\* refused as already there), the saved row holding every computed value
\* with null where the sensor has no value that day; with no tag at all the
\* call is fulfilled and there is no row.
C26_NullValues ==
    \A c \in CallIds :
        (calls[c].op = "aggregateHistory" /\ Drained(calls[c])) =>
            /\ tag = {} => calls[c].outcome = "fulfilled" /\ history_aggregated = {}
            /\ \A p \in RowsOf(calls[c]) :
                  LET r == calls[c].units[p[1]].rows[p[2]]
                      temperatures == SensorValuesOfDay(r.tag_id, "temperature", r.date)
                      humidities == SensorValuesOfDay(r.tag_id, "humidity", r.date)
                  IN  /\ r.pc = "filtered" <=> temperatures = {} /\ humidities = {}
                      /\ r.pc # "filtered" => r.pc \in {"saved", "conflict"}
                      /\ r.pc = "saved" =>
                            \E a \in history_aggregated :
                                /\ a.id = r.id
                                /\ a.tag_id = r.tag_id
                                /\ a.temperature_min = IF temperatures = {} THEN NULL ELSE Min(temperatures)
                                /\ a.temperature_max = IF temperatures = {} THEN NULL ELSE Max(temperatures)
                                /\ a.humidity_min = IF humidities = {} THEN NULL ELSE Min(humidities)
                                /\ a.humidity_max = IF humidities = {} THEN NULL ELSE Max(humidities)

\* C26 witness: an aggregateHistory has saved the row of a tag that has
\* temperatures and no humidity, and has filtered out the other tag, whose
\* only reading holds no value at all.
C26_Witness ==
    \E c \in CallIds :
        /\ calls[c].op = "aggregateHistory"
        /\ Drained(calls[c])
        /\ \E p, q \in RowsOf(calls[c]) :
              LET r == calls[c].units[p[1]].rows[p[2]]
                  f == calls[c].units[q[1]].rows[q[2]]
              IN  /\ r.pc = "saved"
                  /\ r.temperature_min # NULL
                  /\ r.humidity_min = NULL
                  /\ f.pc = "filtered"
                  /\ ReadingsOfDay(f.tag_id, f.date) # {}
        /\ \E a \in history_aggregated : a.humidity_max = NULL /\ a.temperature_max # NULL

\* C26 witness of the empty store: an aggregateHistory over no tag at all
\* has been fulfilled.
C26_NoTags ==
    \E c \in CallIds :
        /\ Fulfilled(calls[c], "aggregateHistory")
        /\ Drained(calls[c])
        /\ tag = {}

\* C27: isDateAggregated({ tag_id, date }) answers true exactly when
\* history_aggregated holds a row for the calendar day of `date` (of that
\* tag, when tag_id is given), whatever the time of day of `date`.
C27_IsDateAggregatedByDay ==
    \A c \in CallIds :
        Fulfilled(calls[c], "isDateAggregated") =>
            (calls[c].answer <=>
                \E a \in history_aggregated :
                    /\ setHoursZero(a.date) = setHoursZero(calls[c].args.date)
                    /\ calls[c].args.tag_id # NULL => a.tag_id = calls[c].args.tag_id)

\* C28: every row that getAggregatedHistory returns is a stored row, with
\* temperature.min, temperature.max, humidity.min and humidity.max equal to
\* the row's stored temperature_min, temperature_max, humidity_min and
\* humidity_max.
C28_AggregatedReadBack ==
    \A c \in CallIds :
        Fulfilled(calls[c], "getAggregatedHistory") =>
            \A i \in 1..Len(calls[c].rows) :
                \E a \in history_aggregated :
                    /\ a.id = calls[c].rows[i].id
                    /\ calls[c].rows[i].temperature.min = a.temperature_min
                    /\ calls[c].rows[i].temperature.max = a.temperature_max
                    /\ calls[c].rows[i].humidity.min = a.humidity_min
                    /\ calls[c].rows[i].humidity.max = a.humidity_max

\* C29: whatever saveHistory and ensureTag calls overlap, a Ruuvi id has at
\* most one tag row, and all the readings saved by that Ruuvi id carry the
\* same tag id.
C29_OneTagPerRuuviId ==
    /\ \A r \in RuuviIds : Cardinality({t \in tag : t.ruuvi_id = r}) <= 1
    /\ \A h1, h2 \in history :
          (\E t1, t2 \in tag : /\ t1.id = h1.tag_id
                               /\ t2.id = h2.tag_id
                               /\ t1.ruuvi_id = t2.ruuvi_id) => h1.tag_id = h2.tag_id

\* C30: whenever the clean task deletes a reading, history_aggregated
\* already holds a row for the reading's tag and calendar day.
C30_NoUnaggregatedLoss ==
    [][\A h \in history \ history' : RowsOfDay(h.tag_id, h.datetime) # {}]_vars

====
